---------------------------- MODULE Spec2Model ----------------------------
(***************************************************************************)
(* A model of ollama_client.py: the OllamaClient transport (chat,          *)
(* _streaming_chat_response, _post) and the curses ChatInterface (run,     *)
(* get_input, stream_response, redraw_history, _initialize_chat).          *)
(*                                                                         *)
(* Text is a sequence of one-character strings, so that strip(), lower(),  *)
(* splitlines() and string concatenation are computed, not assumed.        *)
(***************************************************************************)
EXTENDS Integers, Sequences, FiniteSets, TLC

(***************************************************************************)
(* Bounds of the model.                                                    *)
(***************************************************************************)
\* Messages dispatched between two clears (len(self.messages) <= 2*MaxTurns).
MaxTurns == 2
\* Fragments the service streams between two clears, over all turns.
MaxFrags == 3
\* Keys that can wait in the curses input queue.
MaxQueue == 1

(***************************************************************************)
(* Program constants.                                                      *)
(***************************************************************************)
input_height == 3
header_height == 3

\* "\n[interrupted]", the suffix written at line 292.
InterruptedMarker ==
    <<"\n", "[", "i", "n", "t", "e", "r", "r", "u", "p", "t", "e", "d", "]">>

\* The command words of run().
ExitCommands ==
    { <<"e", "x", "i", "t">>, <<"q", "u", "i", "t">>, <<":", "q">>, <<":", "w", "q">> }
ClearCommand == <<"c", "l", "e", "a", "r">>

(***************************************************************************)
(* Inputs the environment can produce.                                     *)
(***************************************************************************)
\* Lines the user types at the prompt (getstr).
TypedLines ==
    { <<>>,
      <<"E", "x", "i", "t">>,
      <<" ", "q", "u", "i", "t", " ">>,
      <<":", "q">>,
      <<":", "w", "q">>,
      <<"e", "x", "i", "t", "n", "o", "w">>,
      <<"C", "l", "e", "a", "r", " ">> }
\* Keys the user can press while a response streams.
Keys == { " " }
\* Contents of the streamed chunks.
Frags == { <<"a">>, <<"\n", "b">> }
\* Terminal heights getmaxyx() can report; the terminal keeps its height
\* during a session.
TermRows == { 9, 10 }

(***************************************************************************)
(* Python string functions.                                                *)
(***************************************************************************)
UpperLetters ==
    <<"A", "B", "C", "D", "E", "F", "G", "H", "I", "J", "K", "L", "M",
      "N", "O", "P", "Q", "R", "S", "T", "U", "V", "W", "X", "Y", "Z">>
LowerLetters ==
    <<"a", "b", "c", "d", "e", "f", "g", "h", "i", "j", "k", "l", "m",
      "n", "o", "p", "q", "r", "s", "t", "u", "v", "w", "x", "y", "z">>
Whitespace == { " ", "\t", "\n", "\r", "\f" }

\* str.lower() on one character.
LowerChar(c) ==
    IF \E i \in 1..26 : UpperLetters[i] = c
    THEN LowerLetters[CHOOSE i \in 1..26 : UpperLetters[i] = c]
    ELSE c

\* str.lower()
lower(s) == [i \in 1..Len(s) |-> LowerChar(s[i])]

RECURSIVE lstrip(_)
lstrip(s) ==
    IF s # <<>> /\ Head(s) \in Whitespace THEN lstrip(Tail(s)) ELSE s

RECURSIVE rstrip(_)
rstrip(s) ==
    IF s # <<>> /\ s[Len(s)] \in Whitespace
    THEN rstrip(SubSeq(s, 1, Len(s) - 1))
    ELSE s

\* str.strip()
strip(s) == rstrip(lstrip(s))

\* str.splitlines(): cur is the line being collected.
RECURSIVE SplitFrom(_, _)
SplitFrom(s, cur) ==
    IF s = <<>> THEN (IF cur = <<>> THEN <<>> ELSE <<cur>>)
    ELSE IF Head(s) = "\r" /\ Len(s) > 1 /\ s[2] = "\n"
         THEN <<cur>> \o SplitFrom(Tail(Tail(s)), <<>>)
    ELSE IF Head(s) \in { "\n", "\r", "\f" }
         THEN <<cur>> \o SplitFrom(Tail(s), <<>>)
    ELSE SplitFrom(Tail(s), Append(cur, Head(s)))

splitlines(s) == SplitFrom(s, <<>>)

\* list[start:] for a start that may be negative or zero.
SliceFrom(s, start) ==
    LET n == Len(s)
        from == IF start < 0 THEN (IF n + start < 0 THEN 0 ELSE n + start)
                ELSE (IF start > n THEN n ELSE start)
    IN  [first |-> from, items |-> SubSeq(s, from + 1, n)]

(***************************************************************************)
(* State.                                                                  *)
(***************************************************************************)
VARIABLES
    stream,         \* OllamaClient.stream
    chat_history,   \* OllamaClient.chat_history (the transport log)
    messages,       \* ChatInterface.messages (the displayed log)
    abort_stream,   \* ChatInterface.abort_stream.is_set() of the current Event
    max_y,          \* ChatInterface.max_y
    screen,         \* what the last draw put on the terminal
    inputq,         \* the curses input queue
    user_input,     \* run(): user_input
    pc,             \* where run() / stream_response() stands
    gen,            \* state of the generator returned by chat()
    response_text,  \* _streaming_chat_response: response_text
    chunk,          \* stream_response: chunk
    bot_response,   \* stream_response: bot_response
    frame,          \* stream_response: frame
    request,        \* messages of the last HTTP request posted
    turns           \* history: the turns dispatched since the last clear

vars == << stream, chat_history, messages, abort_stream, max_y, screen, inputq,
           user_input, pc, gen, response_text, chunk, bot_response, frame,
           request, turns >>

NoRequest == << [role |-> "none", content |-> <<>>] >>

(***************************************************************************)
(* redraw_history                                                          *)
(***************************************************************************)
\* The comparison limit of lines 231, 237 and 243.
Budget(rows) == rows - input_height - header_height - 1
\* Rows of history_win (line 216).
WinHeight(rows) == rows - input_height - header_height

\* The text lines of one turn drawn from row y on (the for loops of lines
\* 236-240 and 242-247): a set of cells, and the row reached.
RECURSIVE DrawLines(_, _, _, _)
DrawLines(lines, y, limit, idx) ==
    IF lines = <<>> \/ y >= limit THEN [cells |-> {}, y |-> y]
    ELSE LET rest == DrawLines(Tail(lines), y + 1, limit, idx)
         IN  [cells |-> { [row |-> y, turn |-> idx, kind |-> "line",
                           text |-> Head(lines)] } \cup rest.cells,
              y |-> rest.y]

\* The loop of line 231 over the sliced turns; idx is the position in
\* self.messages of the first turn of ts.
RECURSIVE DrawTurns(_, _, _, _)
DrawTurns(ts, y, rows, idx) ==
    IF ts = <<>> THEN {}
    ELSE LET role == Head(ts)[1]
             lines == splitlines(Head(ts)[2])
             \* draw_rainbow_name swallows curses.error below the window
             name == IF role = "assistant" /\ y < WinHeight(rows)
                     THEN { [row |-> y, turn |-> idx, kind |-> "name",
                             text |-> <<>>] }
                     ELSE {}
             y1 == IF role = "assistant" THEN y + 1 ELSE y
             body == DrawLines(lines, y1, Budget(rows), idx)
         IN  name \cup body.cells \cup DrawTurns(Tail(ts), body.y, rows, idx + 1)

redraw_history(msgs, rows) ==
    LET sl == SliceFrom(msgs, -Budget(rows))
    IN  DrawTurns(sl.items, 0, rows, sl.first + 1)

ByeScreen == { [row |-> 0, turn |-> 0, kind |-> "bye", text |-> <<"b", "y", "e">>] }

(***************************************************************************)
(* Initial state: ChatInterface.__init__ and _initialize_chat.             *)
(***************************************************************************)
Init ==
    /\ stream \in BOOLEAN
    /\ chat_history = <<>>
    /\ messages = <<>>
    /\ abort_stream = FALSE
    /\ max_y \in TermRows
    /\ screen = {}
    /\ inputq = <<>>
    /\ user_input = <<>>
    /\ pc = "input"
    /\ gen = "none"
    /\ response_text = <<>>
    /\ chunk = <<>>
    /\ bot_response = <<>>
    /\ frame = 0
    /\ request = NoRequest
    /\ turns = <<>>

(***************************************************************************)
(* History bookkeeping: one record per dispatched turn.                    *)
(***************************************************************************)
NewTurn(text) ==
    [user |-> text, pulled |-> <<>>, applied |-> 0, checks |-> 0,
     redraws |-> 0, pulls |-> 0, state |-> "Dispatched"]

\* The current turn's record with field values changed.
TurnSet(state) ==
    [turns EXCEPT ![Len(turns)].state = state]
TurnPulled(f, state) ==
    [turns EXCEPT ![Len(turns)].pulled = Append(@, f), ![Len(turns)].state = state]
TurnApplied ==
    [turns EXCEPT ![Len(turns)].applied = @ + 1]

\* One more read of the Event's flag at line 283, in the current turn of ts.
Checked(ts) == [ts EXCEPT ![Len(ts)].checks = @ + 1]

\* One more call of redraw_history by stream_response, in the current turn.
Redrawn(ts) == [ts EXCEPT ![Len(ts)].redraws = @ + 1]

\* One more next() on the generator (the for statement of line 282), in the
\* current turn of ts.
PullCounted(ts) == [ts EXCEPT ![Len(ts)].pulls = @ + 1]

\* Fragments pulled so far in the turns ts.
RECURSIVE PulledCount(_)
PulledCount(ts) ==
    IF ts = <<>> THEN 0 ELSE Len(Head(ts).pulled) + PulledCount(Tail(ts))

\* Mutant of SetLast: the text is appended as a new entry.
SetLastAppended(msgs, text) == Append(msgs, <<"assistant", text>>)

\* messages[-1] = ("assistant", text)
SetLast(msgs, text) == [msgs EXCEPT ![Len(msgs)] = <<"assistant", text>>]

(***************************************************************************)
(* run(): the prompt (lines 192-194) and get_input (lines 250-267).        *)
(***************************************************************************)
\* draw_layout (getmaxyx() reports the same height again), then getstr
\* returns the pending keys followed by the typed line.
GetInput(typed) ==
    /\ pc = "input"
    /\ Len(turns) < MaxTurns
    /\ screen' = redraw_history(messages, max_y)
    /\ user_input' = inputq \o typed
    /\ inputq' = <<>>
    /\ pc' = "classify"
    /\ UNCHANGED << stream, chat_history, messages, abort_stream, max_y, gen,
                    response_text, chunk, bot_response, frame, request, turns >>

\* The value get_input returns from its KeyboardInterrupt handler (line 264).
InterruptedInput == <<>>

\* Mutant of InputInterrupted: get_input has no except clause, the
\* KeyboardInterrupt leaves run().
InputInterruptedUncaught ==
    /\ pc = "input"
    /\ Len(turns) < MaxTurns
    /\ pc' = "crashed"
    /\ UNCHANGED << stream, chat_history, messages, abort_stream, max_y, screen,
                    inputq, user_input, gen, response_text, chunk, bot_response,
                    frame, request, turns >>

\* draw_layout, then Ctrl+C arrives while getstr reads.
InputInterrupted ==
    /\ pc = "input"
    /\ Len(turns) < MaxTurns
    /\ screen' = redraw_history(messages, max_y)
    /\ user_input' = InterruptedInput
    /\ inputq' = <<>>
    /\ pc' = "classify"
    /\ UNCHANGED << stream, chat_history, messages, abort_stream, max_y, gen,
                    response_text, chunk, bot_response, frame, request, turns >>

(***************************************************************************)
(* run(): command classification (lines 196-201).                          *)
(***************************************************************************)
\* Mutant of normalized: the input is stripped but not lower-cased.
normalizedNoLower(s) == strip(s)

\* Mutant of normalized: the input is lower-cased but not stripped.
normalizedNoStrip(s) == lower(s)

\* user_input.strip().lower()
normalized(s) == lower(strip(s))

\* lines 196-198: show_bye() and return.
Exit ==
    /\ pc = "classify"
    /\ normalized(user_input) \in ExitCommands
    /\ screen' = ByeScreen
    /\ pc' = "exited"
    /\ UNCHANGED << stream, chat_history, messages, abort_stream, max_y, inputq,
                    user_input, gen, response_text, chunk, bot_response, frame,
                    request, turns >>

\* Mutant of FreshEvent: no new Event is made, the old one stays current.
FreshEventStale == abort_stream

\* Mutant of ClearedHistory: line 172 is missing, the client keeps its log.
ClearedHistoryKept == chat_history

\* What _initialize_chat assigns (lines 171-173).
ClearedMessages == <<>>
ClearedHistory == <<>>
FreshEvent == FALSE

\* lines 199-201: _initialize_chat() and continue.
Clear ==
    /\ pc = "classify"
    /\ normalized(user_input) \notin ExitCommands
    /\ normalized(user_input) = ClearCommand
    /\ messages' = ClearedMessages
    /\ chat_history' = ClearedHistory
    /\ abort_stream' = FreshEvent
    /\ screen' = redraw_history(ClearedMessages, max_y)
    /\ turns' = <<>>
    /\ pc' = "input"
    /\ UNCHANGED << stream, max_y, inputq, user_input, gen, response_text,
                    chunk, bot_response, frame, request >>

\* lines 203-204: append the user turn and set the Event of the turn before.
Dispatch ==
    /\ pc = "classify"
    /\ normalized(user_input) \notin ExitCommands
    /\ normalized(user_input) # ClearCommand
    /\ messages' = Append(messages, <<"user", user_input>>)
    /\ abort_stream' = TRUE
    /\ turns' = Append(turns, NewTurn(user_input))
    /\ pc' = "replace_event"
    /\ UNCHANGED << stream, chat_history, max_y, screen, inputq, user_input, gen,
                    response_text, chunk, bot_response, frame, request >>

\* line 205: a new Event replaces the one just set; line 206 calls
\* stream_response.
ReplaceEvent ==
    /\ pc = "replace_event"
    /\ abort_stream' = FreshEvent
    /\ pc' = "stream_response"
    /\ UNCHANGED << stream, chat_history, messages, max_y, screen, inputq,
                    user_input, gen, response_text, chunk, bot_response, frame,
                    request, turns >>

(***************************************************************************)
(* OllamaClient.chat and stream_response up to its loop (lines 275-281).   *)
(***************************************************************************)
\* Mutant of ChatAppendUser: the user message is not in the log when the
\* request is built.
ChatAppendUserMissing(hist, msg) == hist

\* line 61: self.chat_history.append({"role": "user", "content": msg})
ChatAppendUser(hist, msg) == Append(hist, [role |-> "user", content |-> msg])

\* stream=True: chat() returns the generator, not yet started.
StreamResponseStreaming ==
    /\ pc = "stream_response"
    /\ stream
    /\ messages' = Append(messages, <<"assistant", <<>>>>)
    /\ chat_history' = ChatAppendUser(chat_history, user_input)
    /\ gen' = "created"
    /\ response_text' = <<>>
    /\ bot_response' = <<>>
    /\ frame' = 0
    /\ turns' = TurnSet("Streaming")
    /\ pc' = "pull"
    /\ UNCHANGED << stream, abort_stream, max_y, screen, inputq, user_input,
                    chunk, request >>

\* stream=False: _post is a generator function (it contains a yield), so the
\* call of line 71 posts nothing and returns a generator object; result.get
\* of line 72 raises AttributeError, which nothing catches.
StreamResponseNonStreaming ==
    /\ pc = "stream_response"
    /\ ~stream
    /\ messages' = Append(messages, <<"assistant", <<>>>>)
    /\ chat_history' = ChatAppendUser(chat_history, user_input)
    /\ turns' = TurnSet("Raised")
    /\ pc' = "crashed"
    /\ UNCHANGED << stream, abort_stream, max_y, screen, inputq, user_input, gen,
                    response_text, chunk, bot_response, frame, request >>

(***************************************************************************)
(* The generator: _streaming_chat_response over _post (lines 39-50, 85-90).*)
(***************************************************************************)
\* The first next() runs requests.post with payload["messages"], which is
\* the chat_history list itself.
Posted == IF gen = "created" THEN chat_history ELSE request

\* Mutant of CompletionAppend: the response is recorded twice.
CompletionAppendTwice(hist, text) ==
    hist \o << [role |-> "assistant", content |-> text],
               [role |-> "assistant", content |-> text] >>

\* line 90, reached when the chunks are exhausted.
CompletionAppend(hist, text) ==
    Append(hist, [role |-> "assistant", content |-> text])

\* Mutant of AbandonedAppend: the append sits in a finally clause and runs
\* when the generator is closed.
AbandonedAppendFinally(hist, text) ==
    Append(hist, [role |-> "assistant", content |-> text])

\* What an abandoned generator does to chat_history when stream_response
\* returns from inside its loop: it is closed at its yield, line 90 is not run.
AbandonedAppend(hist, text) == hist

\* lines 86-89: one more chunk; its content is yielded.
NextFragment(f) ==
    /\ pc = "pull"
    /\ PulledCount(turns) < MaxFrags
    /\ request' = Posted
    /\ response_text' = response_text \o f
    /\ gen' = "suspended"
    /\ chunk' = f
    /\ turns' = PullCounted(TurnPulled(f, "Streaming"))
    /\ pc' = "body"
    /\ UNCHANGED << stream, chat_history, messages, abort_stream, max_y, screen,
                    inputq, user_input, bot_response, frame >>

\* Mutant of StreamExhausted: the loop polls the keyboard once more when the
\* chunks have ended, and a pending key interrupts the turn.
StreamExhaustedPollsKey ==
    /\ pc = "pull"
    /\ request' = Posted
    /\ IF inputq # <<>>
       THEN /\ messages' = SetLast(messages, bot_response \o InterruptedMarker)
            /\ chat_history' = AbandonedAppend(chat_history, response_text)
            /\ abort_stream' = TRUE
            /\ gen' = "closed"
            /\ turns' = PullCounted(TurnSet("Interrupted"))
       ELSE /\ messages' = messages
            /\ chat_history' = CompletionAppend(chat_history, response_text)
            /\ abort_stream' = abort_stream
            /\ gen' = "exhausted"
            /\ turns' = PullCounted(TurnSet("Completed"))
    /\ pc' = "input"
    /\ UNCHANGED << stream, max_y, screen, inputq, user_input, response_text,
                    chunk, bot_response, frame >>

\* The chunks end: line 90 runs, the for loop of line 282 ends and
\* stream_response returns to run().
StreamExhausted ==
    /\ pc = "pull"
    /\ request' = Posted
    /\ chat_history' = CompletionAppend(chat_history, response_text)
    /\ gen' = "exhausted"
    /\ turns' = PullCounted(TurnSet("Completed"))
    /\ pc' = "input"
    /\ UNCHANGED << stream, messages, abort_stream, max_y, screen, inputq,
                    user_input, response_text, chunk, bot_response, frame >>

\* Mutant of StreamError: the generator records the partial text on its way
\* out (the append of line 90 in a finally clause).
StreamErrorAppendsPartial ==
    /\ pc = "pull"
    /\ request' = Posted
    /\ chat_history' = CompletionAppend(chat_history, response_text)
    /\ gen' = "closed"
    /\ turns' = PullCounted(TurnSet("Raised"))
    /\ pc' = "crashed"
    /\ UNCHANGED << stream, messages, abort_stream, max_y, screen, inputq,
                    user_input, response_text, chunk, bot_response, frame >>

\* requests raises (connection, status, broken body): _post raises
\* RuntimeError (line 50), which neither stream_response nor run catches.
StreamError ==
    /\ pc = "pull"
    /\ request' = Posted
    /\ gen' = "closed"
    /\ turns' = PullCounted(TurnSet("Raised"))
    /\ pc' = "crashed"
    /\ UNCHANGED << stream, chat_history, messages, abort_stream, max_y, screen,
                    inputq, user_input, response_text, chunk, bot_response, frame >>

(***************************************************************************)
(* stream_response: the body of the loop (lines 283-300).                  *)
(***************************************************************************)
\* Mutant of InterruptedText: the pulled chunk is applied before the mark.
InterruptedTextWithChunk(resp) == resp \o chunk \o InterruptedMarker

\* line 292: the text written on interruption.
InterruptedText(resp) == resp \o InterruptedMarker

\* Mutant of AppendChunk: the chunk replaces the text instead of extending it.
AppendChunkReplace(resp, c) == c

\* line 297: bot_response += chunk
AppendChunk(resp, c) == resp \o c

\* Mutant of Ungetch: the key getch took is not put back.
UngetchDropped(ch, q) == q

\* line 291: curses.ungetch(ch) puts ch in front of the queue getch left.
Ungetch(ch, q) == <<ch>> \o q

\* lines 283-285: the Event is already set; return.
AbortReturn ==
    /\ chat_history' = AbandonedAppend(chat_history, response_text)
    /\ gen' = "closed"
    /\ turns' = Checked(TurnSet("Aborted"))
    /\ pc' = "input"
    /\ UNCHANGED << stream, messages, abort_stream, max_y, screen, inputq,
                    user_input, response_text, chunk, bot_response, frame, request >>

\* Mutant of KeyInterrupt: the return of line 293 is missing, the loop goes
\* on to the next chunk after the mark.
KeyInterruptNoReturn ==
    /\ abort_stream' = TRUE
    /\ inputq' = Tail(inputq)
    /\ messages' = SetLast(messages, InterruptedText(bot_response))
    /\ turns' = Checked(TurnSet("Interrupted"))
    /\ pc' = "pull"
    /\ UNCHANGED << stream, chat_history, max_y, screen, user_input, gen,
                    response_text, chunk, bot_response, frame, request >>

\* lines 287-293: getch finds a key; set the Event, ungetch, mark, return.
KeyInterrupt ==
    /\ abort_stream' = TRUE
    /\ inputq' = Ungetch(Head(inputq), Tail(inputq))
    /\ messages' = SetLast(messages, InterruptedText(bot_response))
    /\ chat_history' = AbandonedAppend(chat_history, response_text)
    /\ gen' = "closed"
    /\ turns' = Checked(TurnSet("Interrupted"))
    /\ pc' = "input"
    /\ UNCHANGED << stream, max_y, screen, user_input, response_text, chunk,
                    bot_response, frame, request >>

\* Mutant of ApplyFragment: the redraw of line 299 comes before the
\* assignment of line 298, so it shows the turn without the chunk.
ApplyFragmentStaleRedraw ==
    /\ bot_response' = AppendChunk(bot_response, chunk)
    /\ messages' = SetLast(messages, bot_response')
    /\ screen' = redraw_history(messages, max_y)
    /\ frame' = frame + 1
    /\ turns' = Redrawn(Checked(TurnApplied))
    /\ pc' = "pull"
    /\ UNCHANGED << stream, chat_history, abort_stream, max_y, inputq, user_input,
                    gen, response_text, chunk, request >>

\* lines 297-300: apply the chunk, redraw, advance the frame.
ApplyFragment ==
    /\ bot_response' = AppendChunk(bot_response, chunk)
    /\ messages' = SetLast(messages, bot_response')
    /\ screen' = redraw_history(messages', max_y)
    /\ frame' = frame + 1
    /\ turns' = Redrawn(Checked(TurnApplied))
    /\ pc' = "pull"
    /\ UNCHANGED << stream, chat_history, abort_stream, max_y, inputq, user_input,
                    gen, response_text, chunk, request >>

LoopBody ==
    /\ pc = "body"
    /\ IF abort_stream THEN AbortReturn
       ELSE IF inputq # <<>> THEN KeyInterrupt
       ELSE ApplyFragment

(***************************************************************************)
(* The user presses a key while the response streams.                      *)
(***************************************************************************)
KeyPress(k) ==
    /\ pc \in { "pull", "body" }
    /\ Len(inputq) < MaxQueue
    /\ inputq' = Append(inputq, k)
    /\ UNCHANGED << stream, chat_history, messages, abort_stream, max_y, screen,
                    user_input, pc, gen, response_text, chunk, bot_response,
                    frame, request, turns >>

Next ==
    \/ \E typed \in TypedLines : GetInput(typed)
    \/ InputInterrupted
    \/ Exit
    \/ Clear
    \/ Dispatch
    \/ ReplaceEvent
    \/ StreamResponseStreaming
    \/ StreamResponseNonStreaming
    \/ \E f \in Frags : NextFragment(f)
    \/ StreamExhausted
    \/ StreamError
    \/ LoopBody
    \/ \E k \in Keys : KeyPress(k)

Spec == Init /\ [][Next]_vars

(***************************************************************************)
(* The session with an explicit abort request: another thread that holds   *)
(* the interface sets the current Event while a response streams.  The     *)
(* program itself has no such caller; the check of lines 283-285 is there  *)
(* for one.                                                                *)
(***************************************************************************)
AbortRequest ==
    /\ pc \in { "pull", "body" }
    /\ ~abort_stream
    /\ abort_stream' = TRUE
    /\ UNCHANGED << stream, chat_history, messages, max_y, screen, inputq,
                    user_input, pc, gen, response_text, chunk, bot_response,
                    frame, request, turns >>

NextAbort == Next \/ AbortRequest

SpecAbort == Init /\ [][NextAbort]_vars

(***************************************************************************)
(* The loop of stream_response under fairness: the interpreter goes on     *)
(* executing the loop body, and the transport delivers each chunk, the end *)
(* of the stream or an error in finite time.                               *)
(***************************************************************************)
Pull == StreamExhausted \/ StreamError \/ \E f \in Frags : NextFragment(f)

FairSpec == Spec /\ WF_vars(LoopBody) /\ WF_vars(Pull)

(***************************************************************************)
(* Vocabulary of the properties.                                           *)
(***************************************************************************)
\* Turn i's entries in the displayed log (turns and messages are cleared
\* together, and each turn appends a user entry and then an assistant entry).
AssistantAt(i) == messages[2 * i]
Started(i) == turns[i].state # "Dispatched"

\* "".join(fs)
RECURSIVE Concat(_)
Concat(fs) == IF fs = <<>> THEN <<>> ELSE Head(fs) \o Concat(Tail(fs))

\* f1 + ... + fk of turn i.
AppliedText(i) == Concat(SubSeq(turns[i].pulled, 1, turns[i].applied))
FullText(i) == Concat(turns[i].pulled)

(***************************************************************************)
(* C1. Prefix-growth: in a streaming turn that has not been cancelled,     *)
(* after k fragments have been applied the assistant entry of the          *)
(* displayed log is f1+...+fk; every pulled fragment has been applied when *)
(* the loop asks for the next one; after exhaustion the entry is the       *)
(* concatenation of all the fragments.                                     *)
(***************************************************************************)
C1_PrefixGrowth ==
    \A i \in 1..Len(turns) :
        turns[i].state \in { "Streaming", "Completed" } =>
            /\ Len(messages) >= 2 * i
            /\ AssistantAt(i) = <<"assistant", AppliedText(i)>>
            /\ turns[i].state = "Completed" =>
                   AssistantAt(i) = <<"assistant", FullText(i)>>
            /\ (i = Len(turns) /\ pc = "pull") =>
                   turns[i].applied = Len(turns[i].pulled)

\* A turn has completed after two different fragments were applied.
C1_Witness ==
    \E i \in 1..Len(turns) :
        /\ turns[i].state = "Completed"
        /\ Len(turns[i].pulled) >= 2
        /\ turns[i].pulled[1] # turns[i].pulled[2]
        /\ AssistantAt(i)[2] = turns[i].pulled[1] \o turns[i].pulled[2]

(***************************************************************************)
(* C2. Interruption determinism: a turn interrupted by a key-press after k *)
(* applied fragments shows exactly f1+...+fk followed by "\n[interrupted]",*)
(* in every later state too: the fragment pulled when the key was found    *)
(* and the fragments of later turns are never applied to it.               *)
(***************************************************************************)
C2_InterruptionDeterminism ==
    \A i \in 1..Len(turns) :
        turns[i].state = "Interrupted" =>
            /\ Len(messages) >= 2 * i
            /\ AssistantAt(i) =
                   <<"assistant", AppliedText(i) \o InterruptedMarker>>
            /\ Len(turns[i].pulled) = turns[i].applied + 1

\* A turn was interrupted after one applied fragment, and a later turn has
\* applied a fragment of its own.
C2_Witness ==
    /\ Len(turns) = 2
    /\ turns[1].state = "Interrupted"
    /\ turns[1].applied = 1
    /\ turns[2].applied = 1
    /\ pc = "pull"

(***************************************************************************)
(* C3. Log divergence: the assistant entries of the transport log are, in  *)
(* order, exactly the full texts of the turns that completed by stream     *)
(* exhaustion; an interrupted turn has none, also after later turns ran.   *)
(***************************************************************************)
IsAssistant(e) == e.role = "assistant"
IsUser(e) == e.role = "user"

RECURSIVE CompletedTexts(_)
CompletedTexts(i) ==
    IF i > Len(turns) THEN <<>>
    ELSE (IF turns[i].state = "Completed"
          THEN << [role |-> "assistant", content |-> FullText(i)] >>
          ELSE <<>>) \o CompletedTexts(i + 1)

C3_LogDivergence ==
    SelectSeq(chat_history, IsAssistant) = CompletedTexts(1)

\* An interrupted turn is followed by a turn that completed with a fragment:
\* the log holds the two user entries and the one assistant entry.
C3_Witness ==
    /\ Len(turns) = 2
    /\ turns[1].state = "Interrupted"
    /\ turns[1].applied = 1
    /\ turns[2].state = "Completed"
    /\ Len(turns[2].pulled) = 1
    /\ Len(chat_history) = 3
    /\ chat_history[3] = [role |-> "assistant", content |-> turns[2].pulled[1]]

(***************************************************************************)
(* C4. A transport failure during a turn leaves an inline error marker in  *)
(* the assistant turn and the session loop goes on to the next prompt.     *)
(* (Stated as the claim states it; the code lets the exception leave       *)
(* run().)                                                                 *)
(***************************************************************************)
C4_TransportFailureContinues ==
    (stream /\ turns # <<>> /\ turns[Len(turns)].state = "Raised") =>
        /\ pc # "crashed"
        /\ messages[Len(messages)] # <<"assistant", bot_response>>

(***************************************************************************)
(* C5. Idempotent clear: a clear command leaves the displayed log and the  *)
(* transport log empty, the current Event unset and the loop at its        *)
(* prompt, whatever the state before; a clear issued on a cleared session  *)
(* changes nothing of it.                                                  *)
(***************************************************************************)
ClearedSession ==
    /\ messages = <<>>
    /\ chat_history = <<>>
    /\ ~abort_stream
    /\ screen = {}

C5_IdempotentClear ==
    [][(pc = "classify" /\ pc' = "input") =>
          /\ ClearedSession'
          /\ ClearedSession =>
                 <<messages, chat_history, abort_stream, screen, inputq>>' =
                 <<messages, chat_history, abort_stream, screen, inputq>>]_vars

\* A clear has just run in a session whose last turn was interrupted (the
\* Event was set, the log was not empty).
C5_Witness ==
    /\ pc = "input"
    /\ user_input = <<" ", "C", "l", "e", "a", "r", " ">>
    /\ gen = "closed"
    /\ ClearedSession

(***************************************************************************)
(* C6. Command classification: the loop terminates iff the trimmed,        *)
(* lower-cased input is exit, quit, :q or :wq; it clears iff that form is  *)
(* clear; every other input is dispatched as a message.                    *)
(***************************************************************************)
Blank == { " ", "\t", "\n", "\r" }
NonBlankAt(s) == { i \in 1..Len(s) : s[i] \notin Blank }
Least(S) == CHOOSE x \in S : \A y \in S : x <= y
Greatest(S) == CHOOSE x \in S : \A y \in S : x >= y

\* The input without its leading and trailing blanks, in lower case.
TrimmedLower(s) ==
    IF NonBlankAt(s) = {} THEN <<>>
    ELSE LET t == SubSeq(s, Least(NonBlankAt(s)), Greatest(NonBlankAt(s)))
         IN  [i \in 1..Len(t) |-> LowerChar(t[i])]

QuitWords ==
    { <<"e", "x", "i", "t">>, <<"q", "u", "i", "t">>, <<":", "q">>, <<":", "w", "q">> }
ClearWord == <<"c", "l", "e", "a", "r">>

C6_CommandClassification ==
    [][pc = "classify" =>
          /\ pc' = "exited" <=> TrimmedLower(user_input) \in QuitWords
          /\ pc' = "input" <=> TrimmedLower(user_input) = ClearWord
          /\ pc' = "replace_event" <=>
                 /\ TrimmedLower(user_input) \notin QuitWords
                 /\ TrimmedLower(user_input) # ClearWord
          /\ pc' = "replace_event" =>
                 messages' = Append(messages, <<"user", user_input>>)]_vars

\* The loop has terminated on " Exit" (a pending key followed by "Exit").
C6_Witness ==
    /\ pc = "exited"
    /\ user_input = <<" ", "E", "x", "i", "t">>

(***************************************************************************)
(* C7. The user message is in the transport log before the request of its  *)
(* turn is posted: the posted message list is the log and ends with that   *)
(* message; the user entries stay in the log when turns fail or are        *)
(* interrupted.                                                            *)
(***************************************************************************)
RECURSIVE UserEntries(_)
UserEntries(i) ==
    IF i > Len(turns) THEN <<>>
    ELSE (IF Started(i)
          THEN << [role |-> "user", content |-> turns[i].user] >>
          ELSE <<>>) \o UserEntries(i + 1)

UserEntriesKept == SelectSeq(chat_history, IsUser) = UserEntries(1)

C7_UserBeforeRequest ==
    [][/\ (gen = "created" /\ gen' # "created") =>
              /\ request' = chat_history
              /\ Len(request') > 0
              /\ request'[Len(request')] =
                     [role |-> "user", content |-> turns[Len(turns)].user]
       /\ UserEntriesKept']_vars

\* The second turn's request failed after the first turn was interrupted:
\* both user entries are in the log, and the failed request carried both.
C7_Witness ==
    /\ pc = "crashed"
    /\ Len(turns) = 2
    /\ turns[1].state = "Interrupted"
    /\ turns[2].state = "Raised"
    /\ Len(chat_history) = 2
    /\ request = chat_history

(***************************************************************************)
(* C8. Non-streaming path: with stream=False a dispatched turn ends        *)
(* Completed: chat() has appended the assistant message to the transport   *)
(* log and the displayed assistant turn holds that same text.  (Stated as  *)
(* the claim states it; the code raises AttributeError in chat().)         *)
(***************************************************************************)
C8_NonStreamingCompletes ==
    (~stream /\ turns # <<>> /\ Started(Len(turns))) =>
        /\ pc # "crashed"
        /\ turns[Len(turns)].state = "Completed"
        /\ chat_history # <<>>
        /\ chat_history[Len(chat_history)].role = "assistant"
        /\ messages[Len(messages)] =
               <<"assistant", chat_history[Len(chat_history)].content>>

(***************************************************************************)
(* C9. Rendering policy: with a budget of at least 2 rows, the turns a     *)
(* redraw puts on the screen are the last turns of the log: the most       *)
(* recent turn is drawn, and when a turn is drawn (a line of it or its     *)
(* name label) every later turn that has something to draw is drawn too.   *)
(* (Stated as the claim states it; the code draws the sliced turns oldest  *)
(* first and cuts the newest.)                                             *)
(***************************************************************************)
\* The states in which the screen shows the last redraw of the present
\* log: after the redraw of the prompt, and in the loop once a fragment was
\* applied and redrawn.
ScreenFresh ==
    \/ pc = "classify"
    \/ pc \in { "pull", "body" } /\ turns[Len(turns)].applied >= 1

DrawnTurns == { c.turn : c \in screen }
\* A user turn without any line has nothing to draw.
Drawable(i) ==
    messages[i][1] = "assistant" \/ splitlines(messages[i][2]) # <<>>

C9_DrawnTurnsAreSuffix ==
    (/\ Budget(max_y) >= 2
     /\ messages # <<>>
     /\ ScreenFresh) =>
        /\ Len(messages) \in DrawnTurns
        /\ \A i \in DrawnTurns :
               \A j \in i..Len(messages) : Drawable(j) => j \in DrawnTurns

(***************************************************************************)
(* C10. An interrupt during get_input is the empty input: get_input        *)
(* returns "" to run(), and run() goes on from it (the empty line is no    *)
(* command: it is dispatched, the loop neither returns nor raises).        *)
(***************************************************************************)
C10_InterruptIsEmptyInput ==
    [][/\ InputInterrupted => (user_input' = <<>> /\ pc' = "classify")
       /\ (pc = "classify" /\ user_input = <<>>) => pc' = "replace_event"
       /\ (pc = "input" /\ pc' # "input") => pc' = "classify"]_vars

\* The read after an interrupted turn (a key is pending, so a line read
\* normally starts with it) returned "" and was dispatched.
C10_Witness ==
    /\ pc = "stream_response"
    /\ Len(turns) = 2
    /\ turns[1].state = "Interrupted"
    /\ user_input = <<>>
    /\ messages[Len(messages)] = <<"user", <<>>>>

(***************************************************************************)
(* C11. When the check at the head of the loop body finds the current      *)
(* Event already set (an explicit abort, no key-press), the assistant turn *)
(* is rewritten to the text applied so far followed by "\n[interrupted]"   *)
(* before stream_response returns.  (Stated as the claim states it; the    *)
(* code returns at line 285 without writing the turn.)                     *)
(***************************************************************************)
C11_AbortRewritesTurn ==
    \A i \in 1..Len(turns) :
        turns[i].state = "Aborted" =>
            AssistantAt(i) = <<"assistant", AppliedText(i) \o InterruptedMarker>>

(***************************************************************************)
(* C12. When the stream raises after j >= 0 fragments, the error leaves    *)
(* the stream and run(), and the transport log is as chat() left it: it    *)
(* ends with the turn's user entry and holds no assistant entry, partial   *)
(* or full, for the turn.                                                  *)
(***************************************************************************)
C12_ErrorLeavesLogAlone ==
    \A i \in 1..Len(turns) :
        (stream /\ turns[i].state = "Raised") =>
            /\ i = Len(turns)
            /\ pc = "crashed"
            /\ chat_history # <<>>
            /\ chat_history[Len(chat_history)] =
                   [role |-> "user", content |-> turns[i].user]
            /\ Len(SelectSeq(chat_history, IsAssistant)) =
                   Cardinality({ j \in 1..Len(turns) : turns[j].state = "Completed" })

\* The stream raised after a fragment had been yielded and applied.
C12_Witness ==
    /\ stream
    /\ pc = "crashed"
    /\ turns # <<>>
    /\ turns[Len(turns)].state = "Raised"
    /\ turns[Len(turns)].applied >= 1
    /\ response_text # <<>>

(***************************************************************************)
(* C13. When a key-press interrupts a streaming turn, the current Event is *)
(* set when stream_response returns and the key is back at the front of    *)
(* the input queue: it waits there at the prompt, and it is the first      *)
(* character of the line the next read returns.                            *)
(***************************************************************************)
InterruptedAtPrompt ==
    /\ pc = "input"
    /\ turns # <<>>
    /\ turns[Len(turns)].state = "Interrupted"

InstallsEvent ==
    \/ pc = "replace_event"
    \/ pc = "classify" /\ pc' = "input"

ChecksPerFragment ==
    \A i \in 1..Len(turns) :
        turns[i].checks =
            Len(turns[i].pulled) - (IF i = Len(turns) /\ pc = "body" THEN 1 ELSE 0)

C14_TokenDiscipline ==
    [][/\ abort_stream' \in BOOLEAN
       /\ ~InstallsEvent => (abort_stream => abort_stream')
       /\ InstallsEvent => ~abort_stream'
       /\ pc' = "replace_event" => abort_stream'
       /\ (pc = "stream_response" /\ pc' = "pull") => ~abort_stream'
       /\ ChecksPerFragment']_vars

\* A turn streams under an unset Event after the turn before it was
\* cancelled by a key-press; its first fragment has been checked.
C14_Witness ==
    /\ pc = "pull"
    /\ Len(turns) = 2
    /\ turns[1].state = "Interrupted"
    /\ ~abort_stream
    /\ turns[2].checks = 1

(***************************************************************************)
(* C15. In a streaming turn every applied fragment is followed by one      *)
(* redraw of the log that holds the text with that fragment, before the    *)
(* next fragment is pulled (so the redraws of a turn are as many as its    *)
(* applied fragments whenever the loop pulls); stream_response does not    *)
(* redraw when it returns on cancellation.                                 *)
(***************************************************************************)
RedrawPerFragment ==
    \A i \in 1..Len(turns) : turns[i].redraws = turns[i].applied

C15_RedrawAfterEachFragment ==
    [][/\ (pc = "body" /\ pc' = "pull") =>
              /\ messages'[Len(messages')] = <<"assistant", bot_response \o chunk>>
              /\ screen' = redraw_history(messages', max_y')
              /\ turns'[Len(turns')].redraws = turns[Len(turns)].redraws + 1
              /\ frame' = frame + 1
       /\ (pc = "body" /\ pc' = "input") =>
              /\ screen' = screen
              /\ turns'[Len(turns')].redraws = turns[Len(turns)].redraws
       /\ RedrawPerFragment']_vars

\* Two fragments have been applied and redrawn, and the screen shows the
\* text of both.
C15_Witness ==
    /\ pc = "pull"
    /\ turns # <<>>
    /\ turns[Len(turns)].applied = 2
    /\ turns[Len(turns)].redraws = 2
    /\ \E c \in screen : c.turn = Len(messages) /\ c.kind = "line"
    /\ screen = redraw_history(messages, max_y)

(***************************************************************************)
(* C16. While a turn streams (from the append of the placeholder to the    *)
(* return of stream_response) a step changes at most the last entry of the *)
(* displayed log: its length is kept, the entries before the last are      *)
(* kept, the last keeps the role assistant.  At every prompt the displayed *)
(* log is a sequence of (user, assistant) pairs.                           *)
(***************************************************************************)
PairedLog ==
    /\ Len(messages) % 2 = 0
    /\ \A i \in 1..Len(messages) :
           messages[i][1] = (IF i % 2 = 1 THEN "user" ELSE "assistant")

C16_OnlyLastEntryChanges ==
    [][/\ pc \in { "pull", "body" } =>
              /\ Len(messages') = Len(messages)
              /\ \A i \in 1..(Len(messages) - 1) :
                     i <= Len(messages') => messages'[i] = messages[i]
              /\ Len(messages') > 0 =>
                     messages'[Len(messages')][1] = "assistant"
       /\ pc' = "input" => PairedLog']_vars

\* The prompt after an interrupted turn and a completed turn that applied
\* two fragments: four entries, the last rewritten twice.
C16_Witness ==
    /\ pc = "input"
    /\ Len(messages) = 4
    /\ turns[1].state = "Interrupted"
    /\ turns[2].state = "Completed"
    /\ turns[2].applied = 2
    /\ messages[2][2] = InterruptedMarker

(***************************************************************************)
(* C17. A dispatched streaming turn over a finite stream of n fragments    *)
(* ends in exactly one of Completed (the stream is exhausted), Interrupted *)
(* (a key was found) and Failed (the transport raised), after at most n+1  *)
(* pulls; its terminal state never changes afterwards; after Completed and *)
(* Interrupted the loop is at its prompt.  This holds for every schedule   *)
(* of key-presses.  (Failed is the state the model calls Raised.)          *)
(***************************************************************************)
TerminalStates == { "Completed", "Interrupted", "Raised" }
InStream == pc \in { "pull", "body" }

C17_TurnTerminates ==
    /\ [][/\ (InStream /\ ~InStream') =>
                 LET t == turns'[Len(turns')] IN
                 /\ t.state \in TerminalStates
                 /\ t.state = "Completed" <=> (pc = "pull" /\ gen' = "exhausted")
                 /\ t.state = "Interrupted" <=> (pc = "body" /\ inputq # <<>>)
                 /\ t.state = "Raised" <=> (pc = "pull" /\ gen' = "closed")
                 /\ t.state \in { "Completed", "Interrupted" } => pc' = "input"
                 /\ t.state = "Completed" => t.pulls = Len(t.pulled) + 1
                 /\ t.state = "Interrupted" => t.pulls = Len(t.pulled)
          /\ InStream' => turns'[Len(turns')].state = "Streaming"
          /\ \A i \in 1..Len(turns) :
                 /\ turns[i].pulls <= Len(turns[i].pulled) + 1
                 /\ (turns[i].state \in TerminalStates /\ Len(turns') >= i) =>
                        turns'[i] = turns[i]]_vars
    /\ InStream ~> ~InStream

\* A second turn has completed after two pulls, with a key pressed during
\* it, after a first turn that was interrupted.
C17_Witness ==
    /\ pc = "input"
    /\ Len(turns) = 2
    /\ turns[1].state = "Interrupted"
    /\ turns[1].pulls = 2
    /\ turns[2].state = "Completed"
    /\ turns[2].pulls = 2
    /\ inputq # <<>>

(***************************************************************************)
(* C18. The keyboard is polled only after a fragment has been pulled: a    *)
(* turn interrupted by a key-press with k fragments applied has pulled     *)
(* exactly k+1, and the (k+1)-th is not in the displayed text.  A key that *)
(* is pending when the stream turns out to be exhausted does not interrupt *)
(* the turn: it ends Completed, the assistant entry is appended to the     *)
(* transport log, and the key stays in the input queue.                    *)
(***************************************************************************)
PollAfterPull ==
    \A i \in 1..Len(turns) :
        /\ turns[i].checks <= Len(turns[i].pulled)
        /\ turns[i].state = "Interrupted" =>
               /\ turns[i].pulls = turns[i].applied + 1
               /\ Len(turns[i].pulled) = turns[i].applied + 1
               /\ turns[i].checks = turns[i].applied + 1
               /\ Len(messages) >= 2 * i
               /\ AssistantAt(i)[2] = AppliedText(i) \o InterruptedMarker

C18_PollOnlyAfterPull ==
    [][/\ (pc = "pull" /\ pc' = "input") =>
              /\ turns'[Len(turns')].state = "Completed"
              /\ turns'[Len(turns')].applied = Len(turns[Len(turns)].pulled)
              /\ chat_history' =
                     Append(chat_history,
                            [role |-> "assistant", content |-> FullText(Len(turns))])
              /\ messages' = messages
              /\ inputq' = inputq
              /\ abort_stream' = abort_stream
       /\ PollAfterPull']_vars

\* A key was pressed after the only fragment had been applied; the turn has
\* completed and the key waits in the queue for the prompt.
C18_Witness ==
    /\ pc = "input"
    /\ Len(turns) = 1
    /\ turns[1].state = "Completed"
    /\ turns[1].applied = 1
    /\ inputq # <<>>
    /\ ~abort_stream
    /\ Len(chat_history) = 2
    /\ chat_history[2] = [role |-> "assistant", content |-> FullText(1)]

(***************************************************************************)
(* C19. The transport log is well-formed in every reachable state: every   *)
(* assistant entry comes right after a user entry, no two assistant        *)
(* entries are adjacent, there are at most as many assistant entries as    *)
(* user entries, and there are as many user entries as messages handed to  *)
(* chat() since the last clear.  After an interrupted turn the request of  *)
(* the next turn therefore ends with two user entries.                     *)
(***************************************************************************)
StartedTurns == { i \in 1..Len(turns) : Started(i) }

\* The request of the current turn has been posted.
PostedThisTurn ==
    /\ stream
    /\ turns # <<>>
    /\ Started(Len(turns))
    /\ gen # "created"

C19_TransportLogWellFormed ==
    /\ \A i \in 1..Len(chat_history) :
           /\ chat_history[i].role \in { "user", "assistant" }
           /\ IsAssistant(chat_history[i]) =>
                  /\ i > 1
                  /\ IsUser(chat_history[i - 1])
           /\ (i < Len(chat_history) /\ IsAssistant(chat_history[i])) =>
                  ~IsAssistant(chat_history[i + 1])
    /\ Len(SelectSeq(chat_history, IsAssistant)) <=
           Len(SelectSeq(chat_history, IsUser))
    /\ Len(SelectSeq(chat_history, IsUser)) = Cardinality(StartedTurns)
    /\ (PostedThisTurn /\ Len(turns) >= 2
            /\ turns[Len(turns) - 1].state = "Interrupted") =>
           /\ Len(request) >= 2
           /\ IsUser(request[Len(request)])
           /\ IsUser(request[Len(request) - 1])

\* The second turn streams after the first was interrupted: its request
\* carried the two user entries and nothing else.
C19_Witness ==
    /\ pc = "body"
    /\ Len(turns) = 2
    /\ turns[1].state = "Interrupted"
    /\ Len(request) = 2
    /\ IsUser(request[1])
    /\ IsUser(request[2])
    /\ chat_history = request

(***************************************************************************)
(* C20. A command is never treated as a message: an input whose trimmed,   *)
(* lower-cased form is exit, quit, :q, :wq or clear is not appended to the *)
(* displayed log or to the transport log and starts no request: no step    *)
(* appends a command as a user entry or starts a generator for one.  On an *)
(* exit command both logs are left as they are and the farewell screen is  *)
(* shown when the loop returns.                                            *)
(***************************************************************************)
IsCommand(s) == TrimmedLower(s) \in QuitWords \cup { ClearWord }

\* The step appends a user entry to the displayed log, to the transport
\* log, or a turn to the history.
AppendsUserMessage ==
    /\ Len(messages') > Len(messages)
    /\ messages'[Len(messages')][1] = "user"
AppendsUserEntry ==
    /\ Len(chat_history') > Len(chat_history)
    /\ IsUser(chat_history'[Len(chat_history')])

C20_CommandsAreNotMessages ==
    [][/\ (pc = "classify" /\ IsCommand(user_input)) =>
              /\ pc' \in { "exited", "input" }
              /\ messages' \in { messages, <<>> }
              /\ chat_history' \in { chat_history, <<>> }
              /\ turns' \in { turns, <<>> }
              /\ <<request, gen>>' = <<request, gen>>
              /\ TrimmedLower(user_input) \in QuitWords =>
                     /\ messages' = messages
                     /\ chat_history' = chat_history
                     /\ screen' = ByeScreen
                     /\ pc' = "exited"
       /\ pc' = "exited" => screen' = ByeScreen
       /\ AppendsUserMessage => ~IsCommand(messages'[Len(messages')][2])
       /\ AppendsUserEntry =>
              ~IsCommand(chat_history'[Len(chat_history')].content)
       /\ gen' # gen => ~IsCommand(user_input)]_vars

\* ":wq" was typed after a completed turn: the loop has returned, the
\* farewell is on the screen and both logs hold that turn only.
C20_Witness ==
    /\ pc = "exited"
    /\ TrimmedLower(user_input) = <<":", "w", "q">>
    /\ screen = ByeScreen
    /\ Len(messages) = 2
    /\ Len(chat_history) = 2
    /\ turns[1].state = "Completed"

=============================================================================
